---------------------------- MODULE Spec2Model ----------------------------
(***************************************************************************)
(* Model of trips/utils.py: calculate_trip_logistics, the trip             *)
(* orchestration (three geocoding calls, one route fetch) followed by the  *)
(* day-by-day Hours-of-Service loop that builds the ELD day logs, and of   *)
(* trips/views.py: TripPlannerAPIView.post, which validates a request,     *)
(* calls calculate_trip_logistics and stores the result as a Trip.         *)
(*                                                                         *)
(* Time is counted in ticks of a quarter of an hour.  Every duration the   *)
(* code handles for the modelled inputs is a whole number of ticks, except *)
(* datetime.max.time() (23:59:59.999999), the last representable instant   *)
(* of a day, which is modelled as one tick before midnight.                *)
(* An instant is a number of ticks since 00:00 of the day of the call.     *)
(***************************************************************************)
EXTENDS Integers, Sequences, FiniteSets, TLC

(***************************************************************************)
(* Bounds of the model                                                     *)
(***************************************************************************)
\* the day loop is cut after this many day logs (the code's loop has no cap)
MaxDays == 7

\* current_cycle_used_hrs, a Decimal with two decimal places, in hundredths
CycleInputs == {-100, 0, 1050, 6000, 6900, 7000}
\* route summary "duration" in seconds and "distance" in meters
DurationInputs == {0, 2700, 3600, 18000, 72000, 144000}
DistanceInputs == {400000, 1931000, 3300000}
\* datetime.now(): time of day of the call, in ticks
NowInputs == {0, 32, 80}

(***************************************************************************)
(* Units and conversions                                                   *)
(***************************************************************************)
TicksPerHour == 4
TicksPerDay == 24 * TicksPerHour

\* total_hours with a floor division: whole hours only
HoursOfWholeHours(duration_s) == (duration_s \div 3600) * TicksPerHour

\* total_hours = total_duration_sec / 3600
HoursOf(duration_s) == (duration_s * TicksPerHour) \div 3600

\* float(current_cycle_used_hrs)
CycleHoursOf(hundredths) == (hundredths * TicksPerHour) \div 100

\* 1609.34 meters per mile, times 100
MetersPerMile100 == 160934

(***************************************************************************)
(* Assumptions and HOS rules                                               *)
(***************************************************************************)
DAILY_DRIVING_LIMIT == 11 * TicksPerHour
DAILY_ON_DUTY_LIMIT == 14 * TicksPerHour
DAILY_REST_PERIOD == 10 * TicksPerHour
WEEKLY_CYCLE_LIMIT == 70 * TicksPerHour
PICKUP_DROPOFF_TIME == 1 * TicksPerHour
FUELING_TIME == TicksPerHour \div 2
FUEL_STOP_MILEAGE == 1000

(***************************************************************************)
(* Pure helpers of the day loop                                            *)
(***************************************************************************)
Min(a, b) == IF a <= b THEN a ELSE b
Max(a, b) == IF a >= b THEN a ELSE b

\* datetime.combine(current_time.date() + timedelta(days=1), datetime.min.time())
NextMidnight(t) == ((t \div TicksPerDay) + 1) * TicksPerDay

\* current_time.date()
DateOf(t) == t \div TicksPerDay

\* datetime.combine(current_time.date(), datetime.max.time())
EndOfDay(t) == (t \div TicksPerDay) * TicksPerDay + (TicksPerDay - 1)

\* RestType with the parity test inverted
RestTypeFlipped(n) == IF n % 2 = 0 THEN "sleeper_berth" ELSE "off_duty"

\* rest_type: alternates with the number of day logs already committed
RestType(n) == IF n % 2 = 1 THEN "sleeper_berth" ELSE "off_duty"

\* driving_hours_today without the total_driving_time operand
DrivingHoursTodayNoTotal(trd, tdt, hlc) ==
    Min(Min(DAILY_DRIVING_LIMIT, trd), hlc)

\* driving_hours_today without the hours_left_on_cycle operand
DrivingHoursTodayNoCycle(trd, tdt, hlc) ==
    Min(Min(DAILY_DRIVING_LIMIT, trd), tdt)

\* driving_hours_today without the DAILY_DRIVING_LIMIT operand
DrivingHoursTodayNoDailyLimit(trd, tdt, hlc) ==
    Min(trd, Min(tdt, hlc))

\* driving_hours_today
DrivingHoursToday(trd, tdt, hlc) ==
    Min(Min(DAILY_DRIVING_LIMIT, trd), Min(tdt, hlc))

\* driving_hours_today * (total_miles / total_hours).  miles_covered is kept
\* exactly, in units of 1 / (1609.34 * total_hours) miles:
\*   d * (distance_m / 1609.34) / total_hours  =  (d * distance_m) units
MilesDriven(d, distance_m) == d * distance_m

\* FUEL_STOP_MILEAGE in the units of miles_covered
FuelThreshold(total_hours) ==
    (FUEL_STOP_MILEAGE \div 100) * MetersPerMile100 * total_hours

\* the fuel stop test of the loop: the threshold was crossed by this segment
FuelStopDue(miles_after, segment, total_hours) ==
    /\ miles_after >= FuelThreshold(total_hours)
    /\ miles_after - segment < FuelThreshold(total_hours)

Event(type, start, duration) ==
    [type |-> type, start_time |-> start, duration |-> duration]

\* the dropoff event left out
DropoffEventsNone(t) == <<>>

\* the dropoff event appended to the day log that was just committed
DropoffEvents(t) == <<Event("on_duty", t, PICKUP_DROPOFF_TIME)>>

\* the coordinate list with the first two coordinates exchanged
RouteCoordinatesSwapped(c, p, d) == <<p, c, d>>

\* the coordinate list handed to get_route_from_openrouteservice
RouteCoordinates(c, p, d) == <<c, p, d>>

\* serializer.is_valid() on current_cycle_used_hrs: MinValueValidator(0),
\* max_digits = 4 and decimal_places = 2 (at most 99.99)
CycleFieldValid(hundredths) == hundredths >= 0 /\ hundredths <= 9999

\* serializer.save without the insert
SaveTripNothing(stored, route, logs) == stored

\* serializer.save(route_data=..., eld_logs_data=...): one new Trip row
SaveTrip(stored, route, logs) ==
    Append(stored, [route_data |-> route, eld_logs_data |-> logs])

(***************************************************************************)
(* State                                                                   *)
(***************************************************************************)
VARIABLES
    pc,                     \* position in calculate_trip_logistics
    current_cycle_used_hrs, \* argument, in hundredths of an hour
    now,                    \* what datetime.now() returns, in ticks
    current_coords, pickup_coords, dropoff_coords,
    route_data,             \* None or the route summary {duration, distance}
    calls,                  \* collaborator calls issued so far
    exception,              \* "none" or the exception that left the function
    total_hours,
    total_driving_time,
    time_remaining_in_day,
    hours_left_on_cycle,
    miles_covered,
    current_time,
    eld_logs,
    entry,                  \* "api": called by the view; "direct": called directly
    response,               \* HTTP status of the view's response, 0 before it
    trips                   \* Trip rows created by the request

vars == <<pc, current_cycle_used_hrs, now, current_coords, pickup_coords,
          dropoff_coords, route_data, calls, exception, total_hours,
          total_driving_time, time_remaining_in_day, hours_left_on_cycle,
          miles_covered, current_time, eld_logs, entry, response, trips>>

viewVars == <<entry, response, trips>>

simVars == <<total_hours, total_driving_time, time_remaining_in_day,
             hours_left_on_cycle, miles_covered, current_time, eld_logs>>

argVars == <<current_cycle_used_hrs, now>>

Init ==
    /\ entry \in {"api", "direct"}
    /\ pc = (IF entry = "api" THEN "post" ELSE "geocode_current")
    /\ response = 0
    /\ trips = <<>>
    /\ current_cycle_used_hrs \in CycleInputs
    /\ now \in NowInputs
    /\ current_coords = "unset"
    /\ pickup_coords = "unset"
    /\ dropoff_coords = "unset"
    /\ route_data = [kind |-> "unset"]
    /\ calls = <<>>
    /\ exception = "none"
    /\ total_hours = 0
    /\ total_driving_time = 0
    /\ time_remaining_in_day = 0
    /\ hours_left_on_cycle = 0
    /\ miles_covered = 0
    /\ current_time = 0
    /\ eld_logs = <<>>

(***************************************************************************)
(* 1. Geocode all locations                                                *)
(***************************************************************************)
\* geocode_location: a coordinate, None (no feature), or ValueError
GeocodeResults == {"coord", "None", "ValueError"}

GeocodeCurrent ==
    /\ pc = "geocode_current"
    /\ calls' = Append(calls, <<"geocode", "current">>)
    /\ \E r \in GeocodeResults :
         IF r = "ValueError"
         THEN /\ pc' = "raised"
              /\ exception' = "ValueError"
              /\ UNCHANGED current_coords
         ELSE /\ pc' = "geocode_pickup"
              /\ current_coords' = r
              /\ UNCHANGED exception
    /\ UNCHANGED <<viewVars, argVars, pickup_coords, dropoff_coords, route_data, simVars>>

GeocodePickup ==
    /\ pc = "geocode_pickup"
    /\ calls' = Append(calls, <<"geocode", "pickup">>)
    /\ \E r \in GeocodeResults :
         IF r = "ValueError"
         THEN /\ pc' = "raised"
              /\ exception' = "ValueError"
              /\ UNCHANGED pickup_coords
         ELSE /\ pc' = "geocode_dropoff"
              /\ pickup_coords' = r
              /\ UNCHANGED exception
    /\ UNCHANGED <<viewVars, argVars, current_coords, dropoff_coords, route_data, simVars>>

GeocodeDropoff ==
    /\ pc = "geocode_dropoff"
    /\ calls' = Append(calls, <<"geocode", "dropoff">>)
    /\ \E r \in GeocodeResults :
         IF r = "ValueError"
         THEN /\ pc' = "raised"
              /\ exception' = "ValueError"
              /\ UNCHANGED dropoff_coords
         ELSE /\ pc' = "get_route"
              /\ dropoff_coords' = r
              /\ UNCHANGED exception
    /\ UNCHANGED <<viewVars, argVars, current_coords, pickup_coords, route_data, simVars>>

(***************************************************************************)
(* 2. Get route data for the full trip                                     *)
(***************************************************************************)
\* get_route_from_openrouteservice: a route summary, None, or ValueError
RouteSummaries ==
    [kind : {"route"}, duration : DurationInputs, distance : DistanceInputs]

RouteResults == RouteSummaries \cup {[kind |-> "None"], [kind |-> "ValueError"]}

GetRoute ==
    /\ pc = "get_route"
    /\ calls' = Append(calls,
                       <<"route", RouteCoordinates(current_coords, pickup_coords,
                                                   dropoff_coords)>>)
    /\ \E r \in RouteResults :
         IF r.kind = "ValueError"
         THEN /\ pc' = "raised"
              /\ exception' = "ValueError"
              /\ UNCHANGED route_data
         ELSE /\ pc' = "setup"
              /\ route_data' = r
              /\ UNCHANGED exception
    /\ UNCHANGED <<viewVars, argVars, current_coords, pickup_coords, dropoff_coords, simVars>>

(***************************************************************************)
(* Derived quantities and loop state (lines 99-135)                        *)
(***************************************************************************)
Setup ==
    /\ pc = "setup"
    /\ IF route_data.kind = "None"
       THEN \* route_data["duration"] on None
            /\ pc' = "raised"
            /\ exception' = "TypeError"
            /\ UNCHANGED simVars
       ELSE /\ pc' = "loop"
            /\ total_hours' = HoursOf(route_data.duration)
            /\ total_driving_time' = HoursOf(route_data.duration)
            /\ time_remaining_in_day' = DAILY_ON_DUTY_LIMIT
            /\ hours_left_on_cycle' =
                   WEEKLY_CYCLE_LIMIT - CycleHoursOf(current_cycle_used_hrs)
            /\ miles_covered' = 0
            /\ current_time' = now
            /\ eld_logs' = <<>>
            /\ UNCHANGED exception
    /\ UNCHANGED <<viewVars, argVars, current_coords, pickup_coords, dropoff_coords,
                   route_data, calls>>

(***************************************************************************)
(* One iteration of the day loop (lines 137-256)                           *)
(***************************************************************************)
\* the events of one day and the loop state after it, computed as the body
\* of the while loop computes them, from the state at the top of the loop
DayOutcome(n, t, trd, tdt, hlc, miles, distance_m, th) ==
    LET first == (n = 0)
        \* day boundary and date of the day log
        t0 == IF first THEN t ELSE NextMidnight(t)
        \* leading rest period, unless it is the very first day
        restEv == IF first THEN <<>>
                  ELSE <<Event(RestType(n), t0, DAILY_REST_PERIOD)>>
        t1 == IF first THEN t0 ELSE t0 + DAILY_REST_PERIOD
        d == DrivingHoursToday(trd, tdt, hlc)
        \* first day: pickup time
        pickupEv == IF first THEN <<Event("on_duty", t1, PICKUP_DROPOFF_TIME)>>
                    ELSE <<>>
        t2 == IF first THEN t1 + PICKUP_DROPOFF_TIME ELSE t1
        trd1 == IF first THEN trd - PICKUP_DROPOFF_TIME ELSE trd
        hlc1 == IF first THEN hlc - PICKUP_DROPOFF_TIME ELSE hlc
        \* driving time
        drivingEv == <<Event("driving", t2, d)>>
        t3 == t2 + d
        miles1 == miles + MilesDriven(d, distance_m)
        \* fuel stop
        fuel == FuelStopDue(miles1, MilesDriven(d, distance_m), th)
        fuelEv == IF fuel THEN <<Event("on_duty", t3, FUELING_TIME)>> ELSE <<>>
        t4 == IF fuel THEN t3 + FUELING_TIME ELSE t3
        trd2 == IF fuel THEN trd1 - FUELING_TIME ELSE trd1
        hlc2 == IF fuel THEN hlc1 - FUELING_TIME ELSE hlc1
        \* bookkeeping
        tdt1 == tdt - d
        trd3 == trd2 - d
        hlc3 == hlc2 - d
        \* remaining on-duty time
        on_duty_duration == Max(0, trd3)
        onDutyEv == IF on_duty_duration > 0
                    THEN <<Event("on_duty", t4, on_duty_duration)>> ELSE <<>>
        t5 == IF on_duty_duration > 0 THEN t4 + on_duty_duration ELSE t4
        \* idle off-duty padding up to the end of the calendar day
        next_rest_starts_at_midnight == ~first
        off_duty_duration == EndOfDay(t5) - t5
        pad == /\ off_duty_duration > 0
               /\ off_duty_duration < DAILY_REST_PERIOD
               /\ ~next_rest_starts_at_midnight
        offDutyEv == IF pad THEN <<Event("off_duty", t5, off_duty_duration)>>
                     ELSE <<>>
        t6 == IF pad THEN t5 + off_duty_duration ELSE t5
        \* dropoff time, appended to the day just committed
        dropoffEv == DropoffEvents(t6)
    IN  [ day   |-> [date |-> DateOf(t0),
                     events |-> restEv \o pickupEv \o drivingEv \o fuelEv
                                  \o onDutyEv \o offDutyEv \o dropoffEv],
          driving_hours_today |-> d,
          total_driving_time |-> tdt1,
          hours_left_on_cycle |-> hlc3,
          miles_covered |-> miles1,
          current_time |-> t6 ]

DayIteration ==
    /\ pc = "loop"
    /\ total_driving_time > 0
    /\ Len(eld_logs) < MaxDays
    /\ LET o == DayOutcome(Len(eld_logs), current_time, time_remaining_in_day,
                           total_driving_time, hours_left_on_cycle,
                           miles_covered, route_data.distance, total_hours)
       IN  /\ eld_logs' = Append(eld_logs, o.day)
           /\ total_driving_time' = o.total_driving_time
           /\ hours_left_on_cycle' = o.hours_left_on_cycle
           /\ miles_covered' = o.miles_covered
           /\ current_time' = o.current_time
           /\ time_remaining_in_day' = DAILY_ON_DUTY_LIMIT
    /\ UNCHANGED <<pc, viewVars, argVars, current_coords, pickup_coords, dropoff_coords,
                   route_data, calls, exception, total_hours>>

\* the while condition fails: return route_data, eld_logs
Return ==
    /\ pc = "loop"
    /\ total_driving_time <= 0
    /\ pc' = "returned"
    /\ UNCHANGED <<viewVars, argVars, current_coords, pickup_coords, dropoff_coords,
                   route_data, calls, exception, simVars>>

(***************************************************************************)
(* TripPlannerAPIView.post                                                 *)
(***************************************************************************)
funVars == <<current_coords, pickup_coords, dropoff_coords, route_data,
             calls, exception, simVars>>

\* serializer.is_valid(): on failure answer 400 with the serializer errors,
\* otherwise call calculate_trip_logistics with the validated data
PostValidate ==
    /\ entry = "api"
    /\ pc = "post"
    /\ \E locations_valid \in BOOLEAN :
         IF locations_valid /\ CycleFieldValid(current_cycle_used_hrs)
         THEN /\ pc' = "geocode_current"
              /\ UNCHANGED response
         ELSE /\ pc' = "invalid"
              /\ response' = 400
    /\ UNCHANGED <<entry, trips, argVars, funVars>>

\* calculate_trip_logistics returned: save the Trip and answer 201
PostCreated ==
    /\ entry = "api"
    /\ pc = "returned"
    /\ response = 0
    /\ trips' = SaveTrip(trips, route_data, eld_logs)
    /\ response' = 201
    /\ UNCHANGED <<pc, entry, argVars, funVars>>

\* calculate_trip_logistics raised: except Exception, answer 400
PostError ==
    /\ entry = "api"
    /\ pc = "raised"
    /\ response = 0
    /\ response' = 400
    /\ UNCHANGED <<pc, entry, trips, argVars, funVars>>

Next ==
    \/ PostValidate
    \/ PostCreated
    \/ PostError
    \/ GeocodeCurrent
    \/ GeocodePickup
    \/ GeocodeDropoff
    \/ GetRoute
    \/ Setup
    \/ DayIteration
    \/ Return

Spec == Init /\ [][Next]_vars

(***************************************************************************)
(* Vocabulary of the properties                                            *)
(***************************************************************************)
RECURSIVE SumDurations(_, _)
\* sum of the durations of the events of a sequence whose type is in types
SumDurations(events, types) ==
    IF events = <<>> THEN 0
    ELSE (IF Head(events).type \in types THEN Head(events).duration ELSE 0)
         + SumDurations(Tail(events), types)

RECURSIVE SumOverDays(_, _)
SumOverDays(days, types) ==
    IF days = <<>> THEN 0
    ELSE SumDurations(Head(days).events, types) + SumOverDays(Tail(days), types)

DrivingOfDay(day) == SumDurations(day.events, {"driving"})
OnDutyOfDay(day) == SumDurations(day.events, {"driving", "on_duty"})

\* fueling events of a day: on_duty, FUELING_TIME long, right after driving
FuelingEventsOfDay(day) ==
    Cardinality({ i \in 2..Len(day.events) :
                    /\ day.events[i].type = "on_duty"
                    /\ day.events[i].duration = FUELING_TIME
                    /\ day.events[i-1].type = "driving" })

RECURSIVE FuelingEvents(_)
FuelingEvents(days) ==
    IF days = <<>> THEN 0
    ELSE FuelingEventsOfDay(Head(days)) + FuelingEvents(Tail(days))

CeilDiv(a, b) == (a + b - 1) \div b

\* cycle_hours_used lies in [0, 70)
ValidCycle ==
    /\ current_cycle_used_hrs >= 0
    /\ current_cycle_used_hrs < 7000

\* the route provider returned a summary with duration_s > 0
ValidRoute == route_data.kind = "route" /\ route_data.duration > 0

InSimulation == pc \in {"loop", "returned"}

(***************************************************************************)
(* Claims                                                                  *)
(***************************************************************************)

\* C1: for duration_s > 0 and cycle_hours_used in [0, 70), every iteration of
\* the day loop strictly decreases total_driving_time and the schedule never
\* has more than ceil(total_hours / DAILY_DRIVING_LIMIT) + 1 day logs.
C1_LoopDecreasesWithinBound ==
    [][ (pc = "loop" /\ ValidCycle /\ ValidRoute
            /\ Len(eld_logs') = Len(eld_logs) + 1)
        => /\ total_driving_time' < total_driving_time
           /\ Len(eld_logs') <= CeilDiv(total_hours, DAILY_DRIVING_LIMIT) + 1
      ]_vars

\* C2: when calculate_trip_logistics returns for a route with total_hours > 0
\* and cycle_hours_used in [0, 70), the driving events of all day logs add up
\* to total_hours.
C2_DrivingTimeConserved ==
    (pc = "returned" /\ ValidCycle /\ ValidRoute)
        => SumOverDays(eld_logs, {"driving"}) = HoursOf(route_data.duration)

C2_Witness ==
    /\ pc = "returned" /\ ValidCycle /\ ValidRoute
    /\ Len(eld_logs) >= 3

\* C3: a cycle_hours_used that is negative or >= WEEKLY_CYCLE_LIMIT is
\* rejected before any day log is produced; the day loop never starts with it.
C3_InvalidCycleRejected ==
    ~ValidCycle => (~InSimulation /\ eld_logs = <<>>)

\* C4: a route whose duration_s is 0 (or negative) is rejected with an error
\* and never yields a returned result.
C4_ZeroDurationRejected ==
    (route_data.kind = "route" /\ route_data.duration <= 0) => pc # "returned"

\* C5: in a terminated run the number of fueling events equals
\* floor(total_miles / FUEL_STOP_MILEAGE).
C5_FuelStopCount ==
    (pc = "returned" /\ ValidCycle /\ ValidRoute)
        => FuelingEvents(eld_logs)
             = (route_data.distance * 100) \div (MetersPerMile100 * FUEL_STOP_MILEAGE)

\* C6: in every day log the driving and on_duty durations add up to at most
\* DAILY_ON_DUTY_LIMIT.
C6_DailyOnDutyCap ==
    (InSimulation /\ ValidCycle /\ ValidRoute)
        => \A k \in 1..Len(eld_logs) :
              OnDutyOfDay(eld_logs[k]) <= DAILY_ON_DUTY_LIMIT

\* C7: cycle_hours_used plus all driving and on_duty time emitted so far never
\* exceeds WEEKLY_CYCLE_LIMIT.
C7_WeeklyCycleCap ==
    (InSimulation /\ ValidCycle /\ ValidRoute)
        => CycleHoursOf(current_cycle_used_hrs)
             + SumOverDays(eld_logs, {"driving", "on_duty"}) <= WEEKLY_CYCLE_LIMIT

\* C8: the driving duration of each day log does not exceed
\* min(DAILY_DRIVING_LIMIT, hours_left_on_cycle at the start of its iteration).
C8_DailyDrivingCap ==
    [][ Len(eld_logs') = Len(eld_logs) + 1
        => /\ DrivingOfDay(eld_logs'[Len(eld_logs')]) <= DAILY_DRIVING_LIMIT
           /\ DrivingOfDay(eld_logs'[Len(eld_logs')]) <= hours_left_on_cycle
      ]_vars

\* a day whose driving was cut by the cycle hours, not by the daily limit
\* nor by the end of the trip
C8_Witness ==
    /\ pc = "loop" /\ total_driving_time > 0 /\ eld_logs # <<>>
    /\ DrivingOfDay(eld_logs[Len(eld_logs)]) > 0
    /\ DrivingOfDay(eld_logs[Len(eld_logs)]) < DAILY_DRIVING_LIMIT

\* C9: day k >= 1 (0-indexed) starts with a rest event of DAILY_REST_PERIOD at
\* 00:00 of that day, sleeper_berth if k is odd and off_duty if k is even;
\* day 0 starts with the on_duty pickup event.
C9_RestAlternation ==
    \A i \in 1..Len(eld_logs) :
        LET k == i - 1
            first == eld_logs[i].events[1]
        IN  IF k = 0
            THEN first.type = "on_duty" /\ first.duration = PICKUP_DROPOFF_TIME
            ELSE /\ first.type = (IF k % 2 = 1 THEN "sleeper_berth" ELSE "off_duty")
                 /\ first.duration = DAILY_REST_PERIOD
                 /\ first.start_time = eld_logs[i].date * TicksPerDay

C9_Witness ==
    /\ Len(eld_logs) >= 3
    /\ eld_logs[2].events[1].type = "sleeper_berth"
    /\ eld_logs[3].events[1].type = "off_duty"

\* the scenario distance_m = 1,931,000, duration_s = 72,000,
\* cycle_hours_used = 10.5, after the function has returned
ScenarioReturned ==
    /\ pc = "returned"
    /\ route_data = [kind |-> "route", duration |-> 72000, distance |-> 1931000]
    /\ current_cycle_used_hrs = 1050

\* day 0 of the scenario: pickup of 1 h, then driving of at most 11 h, and a
\* dropoff of 1 h as last event
ScenarioDayZero ==
    /\ eld_logs # <<>>
    /\ LET ev == eld_logs[1].events
       IN  /\ Len(ev) >= 3
           /\ ev[1].type = "on_duty" /\ ev[1].duration = PICKUP_DROPOFF_TIME
           /\ ev[2].type = "driving" /\ ev[2].duration <= 11 * TicksPerHour
           /\ ev[Len(ev)].type = "on_duty"
           /\ ev[Len(ev)].duration = PICKUP_DROPOFF_TIME

ScenarioSecondDayRest(kind) ==
    /\ Len(eld_logs) >= 2
    /\ eld_logs[2].events[1].type = kind
    /\ eld_logs[2].events[1].duration = 10 * TicksPerHour

\* C10 as stated: in the scenario, day 0 is pickup, driving <= 11 h, ... ,
\* dropoff, and the second day begins with a 10 h rest of kind off_duty.
C10_ScenarioOffDuty ==
    ScenarioReturned => (ScenarioDayZero /\ ScenarioSecondDayRest("off_duty"))

\* C10 amended: in the scenario, day 0 is pickup, driving <= 11 h, ... ,
\* dropoff, and the second day begins with a 10 h rest of kind sleeper_berth.
C10_ScenarioSleeperBerth ==
    ScenarioReturned => (ScenarioDayZero /\ ScenarioSecondDayRest("sleeper_berth"))

C10_Witness == ScenarioReturned /\ Len(eld_logs) = 2

\* C11: when a location resolution yields no coordinate, the route provider
\* is not called and calculate_trip_logistics returns no result.
C11_MissingCoordinateRejected ==
    ("None" \in {current_coords, pickup_coords, dropoff_coords})
        => /\ pc # "returned"
           /\ \A i \in 1..Len(calls) : calls[i][1] # "route"

\* C12: for a POST, a 201 response comes with exactly one stored Trip that
\* carries the computed route_data and eld_logs_data; when
\* calculate_trip_logistics raised, the response is 400 and no Trip is stored.
C12_PostStoresOnlyOnSuccess ==
    entry = "api"
        => /\ response = 201
                => /\ pc = "returned"
                   /\ trips = <<[route_data |-> route_data,
                                 eld_logs_data |-> eld_logs]>>
           /\ (pc = "returned" /\ response # 0) => response = 201
           /\ pc = "raised" => (response \in {0, 400} /\ trips = <<>>)
           /\ response # 201 => trips = <<>>

C12_Witness ==
    /\ entry = "api" /\ response = 201
    /\ Len(trips) = 1 /\ Len(trips[1].eld_logs_data) >= 2

\* C13: for duration_s > 0 and valid cycle hours the returned list of day logs
\* is not empty, and every committed day log has a date and at least one event.
C13_NonEmptyResult ==
    (InSimulation /\ ValidCycle /\ ValidRoute)
        => /\ pc = "returned" => eld_logs # <<>>
           /\ \A k \in 1..Len(eld_logs) :
                 /\ "date" \in DOMAIN eld_logs[k]
                 /\ eld_logs[k].events # <<>>

\* a returned trip shorter than one hour
C13_Witness ==
    /\ pc = "returned" /\ ValidCycle /\ ValidRoute
    /\ route_data.duration < 3600
    /\ Len(eld_logs) = 1

\* C14: for duration_s > 0 and cycle_hours_used in [0, 70), every event of
\* every day log has a strictly positive duration.
C14_PositiveDurations ==
    (InSimulation /\ ValidCycle /\ ValidRoute)
        => \A k \in 1..Len(eld_logs) :
              \A i \in 1..Len(eld_logs[k].events) :
                  eld_logs[k].events[i].duration > 0

\* an off_duty event of day k (1-indexed) that is not its leading rest event
IsPadding(k, i) ==
    /\ eld_logs[k].events[i].type = "off_duty"
    /\ (k = 1 \/ i > 1)

\* C15: an idle off_duty padding event appears only in the final day log; no
\* day that is followed by another day contains one.
C15_PaddingOnlyOnFinalDay ==
    (InSimulation /\ ValidCycle /\ ValidRoute)
        => \A k \in 1..(Len(eld_logs) - 1) :
              \A i \in 1..Len(eld_logs[k].events) : ~IsPadding(k, i)

RECURSIVE RunDays(_, _, _, _, _, _, _)
\* the day loop run to its end (or to MaxDays day logs) from a loop state
RunDays(logs, t, tdt, hlc, miles, distance_m, th) ==
    IF tdt <= 0 \/ Len(logs) >= MaxDays THEN logs
    ELSE LET o == DayOutcome(Len(logs), t, DAILY_ON_DUTY_LIMIT, tdt, hlc,
                             miles, distance_m, th)
         IN  RunDays(Append(logs, o.day), o.current_time, o.total_driving_time,
                     o.hours_left_on_cycle, o.miles_covered, distance_m, th)

\* the day logs of a run on a route and cycle hours when the clock reads clock
SimulateLogs(route, cycle, clock) ==
    RunDays(<<>>, clock, HoursOf(route.duration),
            WEEKLY_CYCLE_LIMIT - CycleHoursOf(cycle), 0, route.distance,
            HoursOf(route.duration))

\* C17: the day logs are determined by the route summary and cycle_hours_used:
\* a run at any other clock reading returns the same day logs.
C17_IndependentOfClock ==
    (pc = "returned" /\ ValidCycle /\ ValidRoute)
        => \A clock \in NowInputs :
              SimulateLogs(route_data, current_cycle_used_hrs, clock) = eld_logs

\* C18: the collaborator calls are, in this order, geocode current, geocode
\* pickup, geocode dropoff and one route fetch over the three coordinates in
\* that order; the route fetch comes after the three resolutions and the day
\* loop after the route fetch.
C18_CallOrder ==
    LET expected == << <<"geocode", "current">>, <<"geocode", "pickup">>,
                       <<"geocode", "dropoff">>,
                       <<"route", <<current_coords, pickup_coords, dropoff_coords>> >> >>
    IN  /\ Len(calls) <= 4
        /\ \A i \in 1..Len(calls) : calls[i] = expected[i]
        /\ pc = "get_route" => Len(calls) = 3
        /\ pc \in {"setup", "loop", "returned"} => Len(calls) = 4

C18_Witness ==
    /\ pc = "loop" /\ eld_logs # <<>>
    /\ Len(calls) = 4
    /\ current_coords # pickup_coords

RECURSIVE AllEvents(_)
\* the events of all day logs, in order
AllEvents(days) ==
    IF days = <<>> THEN <<>>
    ELSE Head(days).events \o AllEvents(Tail(days))

\* C19: over the whole schedule each event starts no earlier than the end
\* (start_time + duration) of the event before it.
C19_NoOverlap ==
    (InSimulation /\ ValidCycle /\ ValidRoute)
        => LET ev == AllEvents(eld_logs)
           IN  \A i \in 1..(Len(ev) - 1) :
                  ev[i+1].start_time >= ev[i].start_time + ev[i].duration

\* C20: the date of each day log is one calendar day after the date of the
\* day log before it.
C20_ConsecutiveDates ==
    (InSimulation /\ ValidCycle /\ ValidRoute)
        => \A k \in 1..(Len(eld_logs) - 1) :
              eld_logs[k+1].date = eld_logs[k].date + 1

=============================================================================
